---- MODULE Spec2Model ----
(***************************************************************************)
(* Model of ultra_map_lib (src/src/lib.rs): the MapPattern grid, its       *)
(* mutators, the text parser MapPattern::from and the serializers          *)
(* save_pattern and get_map_raw.                                           *)
(*                                                                         *)
(* Text is a sequence of one-character strings.  The grid has MAP_SIZE     *)
(* cells laid out in rows of ROW cells; the source fixes them to 256 and   *)
(* 16, the model checks a scaled grid.  Heights keep the width of i8.      *)
(***************************************************************************)
EXTENDS Integers, Sequences, FiniteSets, TLC

\* ------------------------------------------------------------------ bounds

\* Cells of the grid (256 in the source, `MAP_SIZE` and the literals 256).
MAP_SIZE == 3
\* Cells of one row (the literal 16 in the source).
ROW == 2
\* Calls one session makes on its grid.
MaxCalls == 3
\* Characters of one input text the parser is run on.
MaxInput == 7

Cells == 0 .. (MAP_SIZE - 1)

\* ------------------------------------------------------------- characters

DigitChars == <<"0", "1", "2", "3", "4", "5", "6", "7", "8", "9">>

\* char::is_whitespace, on the characters of the model
is_whitespace(c) == c \in {" ", "\n", "\t"}

\* char::to_digit(c, 10): Some(d) or None
to_digit(c) ==
  IF \E d \in 0 .. 9 : DigitChars[d + 1] = c
    THEN [some |-> TRUE, val |-> CHOOSE d \in 0 .. 9 : DigitChars[d + 1] = c]
    ELSE [some |-> FALSE, val |-> 0]

\* char::from_digit(n, 10) of a u32: Some(c) below the radix, None otherwise
from_digit(n) ==
  IF n < 10 THEN [some |-> TRUE, val |-> DigitChars[n + 1]]
            ELSE [some |-> FALSE, val |-> "?"]

\* `i as u32` of an i8: sign extension, so a negative i becomes 2^32 + i.
\* TLC's integers end at 2^31 - 1: a negative i is given as 2^31 + i, which
\* is as far above every radix as the true value.
as_u32(i) == IF i < 0 THEN 2147483647 + (i + 1) ELSE i

RECURSIVE NatToString(_)
NatToString(n) ==
  IF n < 10 THEN <<DigitChars[n + 1]>>
            ELSE NatToString(n \div 10) \o <<DigitChars[(n % 10) + 1]>>

\* i8::to_string: the decimal text, with a leading '-' for a negative value
to_string(i) == IF i < 0 THEN <<"-">> \o NatToString(-i) ELSE NatToString(i)

RECURSIVE DigitsValue(_, _)
DigitsValue(s, acc) ==
  IF s = <<>> THEN acc
  ELSE DigitsValue(Tail(s), acc * 10 + to_digit(Head(s)).val)

\* str::parse::<i8>: an optional sign, then one or more decimal digits, the
\* value within -128..127; anything else is a ParseIntError
parse_i8(s) ==
  LET signed == s # <<>> /\ Head(s) \in {"-", "+"}
      digits == IF signed THEN Tail(s) ELSE s
      allDigits == \A k \in 1 .. Len(digits) : to_digit(digits[k]).some
      mag == DigitsValue(digits, 0)
      v == IF s # <<>> /\ Head(s) = "-" THEN -mag ELSE mag
  IN  IF digits = <<>> \/ ~allDigits \/ v < -128 \/ v > 127
        THEN [ok |-> FALSE, val |-> 0]
        ELSE [ok |-> TRUE, val |-> v]

\* ------------------------------------------------------------------ Prefab

Prefab == {"Empty", "Melee", "Projectile", "JumpPad", "Stairs", "Hideous"}

\* Prefab::match_char
match_char(prefab) ==
  CASE prefab = "Empty" -> "0"
    [] prefab = "Melee" -> "n"
    [] prefab = "Projectile" -> "p"
    [] prefab = "JumpPad" -> "J"
    [] prefab = "Stairs" -> "s"
    [] prefab = "Hideous" -> "H"

\* into_char with the characters of JumpPad and Stairs exchanged
into_char_swapped(prefab) ==
  CASE prefab = "Empty" -> "0"
    [] prefab = "Melee" -> "n"
    [] prefab = "Projectile" -> "p"
    [] prefab = "JumpPad" -> "s"
    [] prefab = "Stairs" -> "J"
    [] prefab = "Hideous" -> "H"

\* impl Into<char> for Prefab
into_char(prefab) ==
  CASE prefab = "Empty" -> "0"
    [] prefab = "Melee" -> "n"
    [] prefab = "Projectile" -> "p"
    [] prefab = "JumpPad" -> "J"
    [] prefab = "Stairs" -> "s"
    [] prefab = "Hideous" -> "H"

\* impl TryFrom<char> for Prefab: Ok(variant) or Err(UltraMapInvalidCharacter)
try_from(value) ==
  CASE value = "n" -> [ok |-> TRUE, val |-> "Melee"]
    [] value = "p" -> [ok |-> TRUE, val |-> "Projectile"]
    [] value = "J" -> [ok |-> TRUE, val |-> "JumpPad"]
    [] value = "H" -> [ok |-> TRUE, val |-> "Hideous"]
    [] value = "s" -> [ok |-> TRUE, val |-> "Stairs"]
    [] value = "0" -> [ok |-> TRUE, val |-> "Empty"]
    [] OTHER -> [ok |-> FALSE, val |-> "UltraMapInvalidCharacter"]

\* impl Default for Prefab
PrefabDefault == "Projectile"

\* ------------------------------------------------------------- serializers

\* LevelToken without the parenthesized escape
LevelTokenBare(i) == to_string(i)

\* LevelToken choosing by the magnitude: a bare token for -9..9
LevelTokenByMagnitude(i) ==
  IF i < -9 \/ i > 9 THEN <<"(">> \o to_string(i) \o <<")">>
                      ELSE to_string(i)

\* save_pattern, lines 171-175: the text of one height
LevelToken(i) ==
  IF Len(to_string(i)) > 1 THEN <<"(">> \o to_string(i) \o <<")">>
                           ELSE to_string(i)

RECURSIVE SaveLevels(_, _, _)
\* save_pattern, lines 170-180: the loop over level_map from `index` on
SaveLevels(lm, index, save) ==
  IF index = MAP_SIZE THEN save
  ELSE LET c == LevelToken(lm[index])
           s1 == IF index % ROW = 0 /\ index > 0 THEN Append(save, "\n") ELSE save
       IN  SaveLevels(lm, index + 1, s1 \o c)

RECURSIVE SavePrefabs(_, _, _)
\* save_pattern, lines 185-190: the loop over prefab_map from `index` on
SavePrefabs(pm, index, save) ==
  IF index = MAP_SIZE THEN save
  ELSE LET s1 == IF index % ROW = 0 /\ index > 0 THEN Append(save, "\n") ELSE save
       IN  SavePrefabs(pm, index + 1, Append(s1, match_char(pm[index])))

\* SaveText with one line break, not two, after the heights
SaveTextOneBreak(lm, pm) ==
  LET levels == SaveLevels(lm, 0, <<>>)
      sep == levels \o <<"\n">>
      save == SavePrefabs(pm, 0, sep)
  IN  save \o <<"\n">>

\* save_pattern: the text written to <name>.cgp (writeln! adds the last '\n')
SaveText(lm, pm) ==
  LET levels == SaveLevels(lm, 0, <<>>)
      sep == levels \o <<"\n", "\n">>
      save == SavePrefabs(pm, 0, sep)
  IN  save \o <<"\n">>

RECURSIVE RawLevels(_, _, _)
\* get_map_raw, lines 121-124: from_digit(..).unwrap() of each height
RawLevels(lm, index, returnee) ==
  IF index = MAP_SIZE THEN [panic |-> FALSE, text |-> returnee]
  ELSE LET c == from_digit(as_u32(lm[index]))
       IN  IF ~c.some THEN [panic |-> TRUE, text |-> <<>>]
           ELSE RawLevels(lm, index + 1, Append(returnee, c.val))

\* get_map_raw: the returned String, or the panic of unwrap
RawText(lm, pm) ==
  LET levels == RawLevels(lm, 0, <<>>)
  IN  IF levels.panic THEN levels
      ELSE [panic |-> FALSE,
            text |-> levels.text \o <<"\n">> \o [k \in 1 .. MAP_SIZE |-> into_char(pm[k - 1])]]

\* ------------------------------------------------------------------ parser

Running == "run"
ConversionError == "Err(UltraMapConversionError)"
IoError == "Err(UltraMapIoError)"
PanicParse == "panic: unwrap on Err(ParseIntError)"
PanicBounds == "panic: index out of bounds"
PanicPrefab == "panic: unwrap on Err(UltraMapInvalidCharacter)"
Panics == {PanicParse, PanicBounds, PanicPrefab}

\* from, lines 53-59: the locals before the scan
ScanInit ==
  [level_map |-> [i \in Cells |-> 0],
   prefab_map |-> [i \in Cells |-> "0"],
   in_parentheses |-> FALSE,
   temp |-> <<>>,
   index |-> 0,
   res |-> Running]

\* from, lines 69-75: the arm of ')'.  The value is computed first
\* (parse().unwrap()), then the place level_map[index] is indexed.
CloseParen(s) ==
  LET p == parse_i8(s.temp)
  IN  IF ~p.ok THEN [s EXCEPT !.in_parentheses = FALSE, !.res = PanicParse]
      ELSE IF s.index >= MAP_SIZE
        THEN [s EXCEPT !.in_parentheses = FALSE, !.res = PanicBounds]
      ELSE [s EXCEPT !.in_parentheses = FALSE,
                     !.level_map[s.index] = p.val,
                     !.temp = <<>>,
                     !.index = s.index + 1]

\* from, lines 82-89: a character outside parentheses
PlainChar(s, c) ==
  IF s.index < MAP_SIZE
    THEN LET digit == to_digit(c)
         IN  IF ~digit.some THEN [s EXCEPT !.res = ConversionError]
             ELSE [s EXCEPT !.level_map[s.index] = digit.val,
                            !.index = s.index + 1]
  ELSE IF s.index - MAP_SIZE >= MAP_SIZE THEN [s EXCEPT !.res = PanicBounds]
  ELSE [s EXCEPT !.prefab_map[s.index - MAP_SIZE] = c, !.index = s.index + 1]

\* ScanChar with '(' counted as a token of its own
ScanCharParenAdvances(s, c) ==
  IF is_whitespace(c) THEN s
  ELSE IF c = "(" THEN [s EXCEPT !.in_parentheses = TRUE, !.index = s.index + 1]
  ELSE IF c = ")" THEN CloseParen(s)
  ELSE IF s.in_parentheses THEN [s EXCEPT !.temp = Append(s.temp, c)]
  ELSE PlainChar(s, c)

\* ScanChar appending a blank read inside parentheses to the buffer
ScanCharBlankInParens(s, c) ==
  IF is_whitespace(c) /\ ~s.in_parentheses THEN s
  ELSE IF c = "(" THEN [s EXCEPT !.in_parentheses = TRUE]
  ELSE IF c = ")" THEN CloseParen(s)
  ELSE IF s.in_parentheses THEN [s EXCEPT !.temp = Append(s.temp, c)]
  ELSE PlainChar(s, c)

\* ScanChar without the test of lines 62-64: a blank is a token
ScanCharNoSkip(s, c) ==
  IF c = "(" THEN [s EXCEPT !.in_parentheses = TRUE]
  ELSE IF c = ")" THEN CloseParen(s)
  ELSE IF s.in_parentheses THEN [s EXCEPT !.temp = Append(s.temp, c)]
  ELSE PlainChar(s, c)

\* from, lines 61-90: the body of the loop for one character c
ScanChar(s, c) ==
  IF is_whitespace(c) THEN s
  ELSE IF c = "(" THEN [s EXCEPT !.in_parentheses = TRUE]
  ELSE IF c = ")" THEN CloseParen(s)
  ELSE IF s.in_parentheses THEN [s EXCEPT !.temp = Append(s.temp, c)]
  ELSE PlainChar(s, c)

RECURSIVE ScanText(_, _)
\* from, lines 61-90: the loop, left at the first error or panic
ScanText(s, text) ==
  IF text = <<>> \/ s.res # Running THEN s
  ELSE ScanText(ScanChar(s, Head(text)), Tail(text))

\* Resolve filling the array with Prefab::default() instead of Prefab::Empty
ResolveDefaultFill(s) ==
  IF \E i \in Cells : s.prefab_map[i] # "0" /\ ~try_from(s.prefab_map[i]).ok
    THEN [res |-> PanicPrefab]
    ELSE [res |-> "Ok",
          level_map |-> s.level_map,
          prefab_map |-> [i \in Cells |->
                            IF s.prefab_map[i] # "0" THEN try_from(s.prefab_map[i]).val
                                                     ELSE PrefabDefault]]

\* from, lines 92-102: the prefab characters resolved, and the value returned
Resolve(s) ==
  IF \E i \in Cells : s.prefab_map[i] # "0" /\ ~try_from(s.prefab_map[i]).ok
    THEN [res |-> PanicPrefab]
    ELSE [res |-> "Ok",
          level_map |-> s.level_map,
          prefab_map |-> [i \in Cells |->
                            IF s.prefab_map[i] # "0" THEN try_from(s.prefab_map[i]).val
                                                     ELSE "Empty"]]

\* from, on the text read from the file
FromText(text) ==
  LET s == ScanText(ScanInit, text)
  IN  IF s.res # Running THEN [res |-> s.res] ELSE Resolve(s)

\* from, lines 47-103: File::open(path)? first
FromFile(f) == IF ~f.exists THEN [res |-> IoError] ELSE FromText(f.text)

\* ------------------------------------------------------------------- state

VARIABLES
  level_map,    \* self.level_map of the session's MapPattern
  prefab_map,   \* self.prefab_map
  pc,           \* "alive", or "aborted" once a call has panicked
  calls,        \* calls made so far
  call,         \* the call observed: the mutator called and its arguments
  file,         \* the file <name>.cgp: [exists, text]
  loaded,       \* what the last MapPattern::from returned
  raw,          \* what the last get_map_raw returned
  input,        \* parser run: the characters read so far
  scan,         \* parser run: the locals of from
  ppc,          \* parser run: "scan" or "done"
  ret           \* parser run: the value returned, or the panic

vars == <<level_map, prefab_map, pc, calls, call, file, loaded, raw, input, scan, ppc, ret>>
gridVars == <<level_map, prefab_map>>
sessionVars == <<level_map, prefab_map, pc, calls, call, file, loaded, raw>>
parserVars == <<input, scan, ppc, ret>>

NoFile == [exists |-> FALSE, text |-> <<>>]
NoReturn == [res |-> "none"]
NoRaw == [returned |-> FALSE, text |-> <<>>]
NoCall == [op |-> "none"]

\* Arguments the session passes: coordinates, indexes, levels (i8)
CoordArgs == 0 .. MAP_SIZE
IndexArgs == 0 .. MAP_SIZE
LevelArgs == {-128, -51, -50, -1, 0, 9, 10, 50, 51, 127}

\* Characters an input text is made of
Alphabet == {" ", "(", ")", "-", "0", "5", "n"}

\* impl Default for MapPattern
Init ==
  /\ level_map = [i \in Cells |-> 0]
  /\ prefab_map = [i \in Cells |-> "Empty"]
  /\ pc = "alive"
  /\ calls = 0
  /\ call = NoCall
  /\ file = NoFile
  /\ loaded = NoReturn
  /\ raw = NoRaw
  /\ input = <<>>
  /\ scan = ScanInit
  /\ ppc = "scan"
  /\ ret = NoReturn

\* A call of a mutator: the session is alive and has calls left
Call == pc = "alive" /\ calls < MaxCalls /\ calls' = calls + 1

\* panic!: the process ends, the grid as it was
Abort == pc' = "aborted" /\ UNCHANGED <<level_map, prefab_map, file, loaded, raw>>

\* set_level_at testing the coordinates one by one: y beyond a row is rejected
set_level_at_by_coordinate(x, y, level) ==
  /\ Call
  /\ UNCHANGED parserVars
  /\ LET index == x * ROW + y
     IN  IF x * ROW >= MAP_SIZE \/ y >= ROW THEN Abort
         ELSE IF ~(level \in -50 .. 50) THEN Abort
         ELSE /\ level_map' = [level_map EXCEPT ![index] = level]
              /\ UNCHANGED <<prefab_map, pc, file, loaded, raw>>

\* set_level_at
set_level_at(x, y, level) ==
  /\ Call
  /\ UNCHANGED parserVars
  /\ LET index == x * ROW + y
     IN  IF index >= MAP_SIZE THEN Abort
         ELSE IF ~(level \in -50 .. 50) THEN Abort
         ELSE /\ level_map' = [level_map EXCEPT ![index] = level]
              /\ UNCHANGED <<prefab_map, pc, file, loaded, raw>>

\* set_level_at_index with the bound of the level off by one: 50 is rejected
set_level_at_index_ge(index, level) ==
  /\ Call
  /\ UNCHANGED parserVars
  /\ IF index >= MAP_SIZE THEN Abort
     ELSE IF level >= 50 THEN Abort
     ELSE /\ level_map' = [level_map EXCEPT ![index] = level]
          /\ UNCHANGED <<prefab_map, pc, file, loaded, raw>>

\* set_level_at_index
set_level_at_index(index, level) ==
  /\ Call
  /\ UNCHANGED parserVars
  /\ IF index >= MAP_SIZE THEN Abort
     ELSE IF level > 50 THEN Abort
     ELSE /\ level_map' = [level_map EXCEPT ![index] = level]
          /\ UNCHANGED <<prefab_map, pc, file, loaded, raw>>

\* set_prefab_at resetting the height of the tile it writes
set_prefab_at_resetting(x, y, prefab) ==
  /\ Call
  /\ UNCHANGED parserVars
  /\ IF x * ROW + y >= MAP_SIZE THEN Abort
     ELSE /\ prefab_map' = [prefab_map EXCEPT ![x * ROW + y] = prefab]
          /\ level_map' = [level_map EXCEPT ![x * ROW + y] = 0]
          /\ UNCHANGED <<pc, file, loaded, raw>>

\* set_prefab_at: the array index panics out of bounds
set_prefab_at(x, y, prefab) ==
  /\ Call
  /\ UNCHANGED parserVars
  /\ IF x * ROW + y >= MAP_SIZE THEN Abort
     ELSE /\ prefab_map' = [prefab_map EXCEPT ![x * ROW + y] = prefab]
          /\ UNCHANGED <<level_map, pc, file, loaded, raw>>

\* save_pattern
save_pattern ==
  /\ pc = "alive"
  /\ UNCHANGED <<calls, call>>
  /\ UNCHANGED parserVars
  /\ file' = [exists |-> TRUE, text |-> SaveText(level_map, prefab_map)]
  /\ UNCHANGED <<level_map, prefab_map, pc, loaded, raw>>

\* get_map_raw
get_map_raw ==
  /\ pc = "alive"
  /\ UNCHANGED <<calls, call>>
  /\ UNCHANGED parserVars
  /\ LET r == RawText(level_map, prefab_map)
     IN  IF r.panic THEN Abort
         ELSE /\ raw' = [returned |-> TRUE, text |-> r.text]
              /\ UNCHANGED <<level_map, prefab_map, pc, file, loaded>>

\* MapPattern::from on the session's file
from ==
  /\ pc = "alive"
  /\ UNCHANGED <<calls, call>>
  /\ UNCHANGED parserVars
  /\ loaded' = FromFile(file)
  /\ pc' = IF loaded'.res \in Panics THEN "aborted" ELSE pc
  /\ UNCHANGED <<level_map, prefab_map, file, raw>>

\* The mutators, on the grid of default()
Next ==
  \/ \E x \in CoordArgs, y \in CoordArgs, level \in LevelArgs :
       set_level_at(x, y, level) /\ UNCHANGED call
  \/ \E index \in IndexArgs, level \in LevelArgs :
       set_level_at_index(index, level) /\ UNCHANGED call
  \/ \E x \in CoordArgs, y \in CoordArgs, prefab \in Prefab :
       set_prefab_at(x, y, prefab) /\ UNCHANGED call

Spec == Init /\ [][Next]_vars

\* ------------------------------------------- one call, with its arguments

\* A cell of a grid the call is made on
CallSamples == {<<-50, "Stairs">>, <<9, "Melee">>}

InitCall ==
  /\ \E g \in [Cells -> CallSamples] :
       /\ level_map = [i \in Cells |-> g[i][1]]
       /\ prefab_map = [i \in Cells |-> g[i][2]]
  /\ pc = "alive"
  /\ calls = 0
  /\ call = NoCall
  /\ file = NoFile
  /\ loaded = NoReturn
  /\ raw = NoRaw
  /\ input = <<>>
  /\ scan = ScanInit
  /\ ppc = "scan"
  /\ ret = NoReturn

\* One mutator is called on the grid, and the call is recorded
NextCall ==
  \/ \E x \in CoordArgs, y \in CoordArgs, level \in LevelArgs :
       /\ call = NoCall
       /\ set_level_at(x, y, level)
       /\ call' = [op |-> "set_level_at", x |-> x, y |-> y, level |-> level]
  \/ \E index \in IndexArgs, level \in LevelArgs :
       /\ call = NoCall
       /\ set_level_at_index(index, level)
       /\ call' = [op |-> "set_level_at_index", index |-> index, level |-> level]
  \/ \E x \in CoordArgs, y \in CoordArgs, prefab \in Prefab :
       /\ call = NoCall
       /\ set_prefab_at(x, y, prefab)
       /\ call' = [op |-> "set_prefab_at", x |-> x, y |-> y, prefab |-> prefab]

SpecCall == InitCall /\ [][NextCall]_vars

\* ------------------------------------------------- the codec, on any grid

\* A cell of a grid the codec is run on: a height (i8) and a prefab
CellSamples ==
  {<<0, "Empty">>, <<9, "Melee">>, <<10, "Projectile">>, <<-1, "JumpPad">>,
   <<-50, "Stairs">>, <<50, "Hideous">>, <<-128, "Empty">>, <<127, "Melee">>}

InitCodec ==
  /\ \E g \in [Cells -> CellSamples] :
       /\ level_map = [i \in Cells |-> g[i][1]]
       /\ prefab_map = [i \in Cells |-> g[i][2]]
  /\ pc = "alive"
  /\ calls = 0
  /\ call = NoCall
  /\ file = NoFile
  /\ loaded = NoReturn
  /\ raw = NoRaw
  /\ input = <<>>
  /\ scan = ScanInit
  /\ ppc = "scan"
  /\ ret = NoReturn

NextCodec ==
  \/ save_pattern
  \/ get_map_raw
  \/ from

SpecCodec == InitCodec /\ [][NextCodec]_vars

\* --------------------------------------------------- the parser, by steps

\* from, one iteration of the loop on the next character of the input
FromChar(c) ==
  /\ ppc = "scan"
  /\ Len(input) < MaxInput
  /\ input' = Append(input, c)
  /\ scan' = ScanChar(scan, c)
  /\ IF scan'.res # Running
       THEN ppc' = "done" /\ ret' = [res |-> scan'.res]
       ELSE UNCHANGED <<ppc, ret>>
  /\ UNCHANGED sessionVars

\* from, the end of the input: lines 92-102
FromEnd ==
  /\ ppc = "scan"
  /\ ppc' = "done"
  /\ ret' = Resolve(scan)
  /\ UNCHANGED <<input, scan>>
  /\ UNCHANGED sessionVars

NextParse ==
  \/ \E c \in Alphabet : FromChar(c)
  \/ FromEnd

SpecParse == Init /\ [][NextParse]_vars

\* =================================================================== claims

\* What the format says, written apart from the code: the digit characters,
\* the prefab characters, the height range.
RefDigit ==
  "0" :> 0 @@ "1" :> 1 @@ "2" :> 2 @@ "3" :> 3 @@ "4" :> 4 @@
  "5" :> 5 @@ "6" :> 6 @@ "7" :> 7 @@ "8" :> 8 @@ "9" :> 9
RefPrefab ==
  "0" :> "Empty" @@ "n" :> "Melee" @@ "p" :> "Projectile" @@
  "J" :> "JumpPad" @@ "s" :> "Stairs" @@ "H" :> "Hideous"
RefDigitChars == DOMAIN RefDigit
RefPrefabChars == DOMAIN RefPrefab
RefBlank == {" ", "\n", "\t"}
HeightRange == -50 .. 50
TypedErrors ==
  {"Err(UltraMapConversionError)", "Err(UltraMapParsingError)", "Err(UltraMapIoError)",
   "Err(UltraMapIndexOutOfBounds)", "Err(UltraMapInvalidCharacter)"}

InRange(lm) == \A i \in Cells : lm[i] \in HeightRange
OkGrid(lm, pm) == [res |-> "Ok", level_map |-> lm, prefab_map |-> pm]

\* ---- C1
\* C1 (round trip): for a grid whose heights are all in [-50,50], with any
\* prefabs, parsing the text save_pattern wrote for it succeeds and returns
\* a grid with the same heights and the same prefabs at the same indices.
\* (In SpecCodec the file, once written, holds the text of the grid, and
\* `loaded` is an I/O error only when from ran before the file existed.)
C1_RoundTrip ==
  (InRange(level_map) /\ loaded.res \notin {"none", IoError})
    => /\ file = [exists |-> TRUE, text |-> SaveText(level_map, prefab_map)]
       /\ loaded = OkGrid(level_map, prefab_map)

\* a grid with a negative, a bare and a two-digit height and three
\* different prefabs has been saved and parsed back
C1_Witness ==
  /\ loaded.res = "Ok"
  /\ InRange(level_map)
  /\ {-50, 9, 10} \subseteq {level_map[i] : i \in Cells}
  /\ Cardinality({prefab_map[i] : i \in Cells}) = 3

\* ---- C2
\* The input format read apart from the parser: blanks between tokens, then
\* up to MAP_SIZE height tokens (a digit, or "(" literal ")" with the literal
\* an optional '-' and digits, within the 8-bit range), then up to MAP_SIZE
\* prefab characters.  `open` tells that the text ends inside a "(" whose
\* ")" has not come yet.
RefIsLiteral(b) ==
  LET d == IF b # <<>> /\ Head(b) = "-" THEN Tail(b) ELSE b
  IN  d # <<>> /\ \A k \in 1 .. Len(d) : d[k] \in RefDigitChars

RECURSIVE RefMagnitude(_)
RefMagnitude(d) ==
  IF d = <<>> THEN 0
  ELSE RefMagnitude(SubSeq(d, 1, Len(d) - 1)) * 10 + RefDigit[d[Len(d)]]

RefLiteralValue(b) ==
  IF Head(b) = "-" THEN -RefMagnitude(Tail(b)) ELSE RefMagnitude(b)

RefIsHeightLiteral(b) ==
  RefIsLiteral(b) /\ RefLiteralValue(b) \in -128 .. 127

RefBad == [ok |-> FALSE, heights |-> <<>>, prefabs |-> <<>>, open |-> FALSE]

RECURSIVE RefScan(_, _, _)
RefScan(text, hs, ps) ==
  IF text = <<>> THEN [ok |-> TRUE, heights |-> hs, prefabs |-> ps, open |-> FALSE]
  ELSE LET c == Head(text)
           closes == {j \in 2 .. Len(text) : text[j] = ")"}
       IN  IF c \in RefBlank THEN RefScan(Tail(text), hs, ps)
           ELSE IF Len(hs) < MAP_SIZE THEN
             IF c \in RefDigitChars THEN RefScan(Tail(text), Append(hs, RefDigit[c]), ps)
             ELSE IF c # "(" THEN RefBad
             ELSE IF closes = {} THEN
               \* an unfinished token: well formed so far when what follows
               \* the "(" begins a literal
               LET b == Tail(text)
               IN  [ok |-> b = <<>> \/ b = <<"-">> \/ RefIsLiteral(b),
                    heights |-> hs, prefabs |-> ps, open |-> TRUE]
             ELSE LET j == CHOOSE k \in closes : \A m \in closes : k <= m
                      b == SubSeq(text, 2, j - 1)
                  IN  IF RefIsHeightLiteral(b)
                        THEN RefScan(SubSeq(text, j + 1, Len(text)),
                                     Append(hs, RefLiteralValue(b)), ps)
                        ELSE RefBad
           ELSE IF Len(ps) < MAP_SIZE /\ c \in RefPrefabChars
             THEN RefScan(Tail(text), hs, Append(ps, c))
           ELSE RefBad

RefInput == RefScan(input, <<>>, <<>>)
RefComplete(r) == r.ok /\ ~r.open /\ Len(r.heights) = MAP_SIZE /\ Len(r.prefabs) = MAP_SIZE

\* C2 (k-th token at index k): on every well-formed input the parser has
\* not failed, its index is the number of completed tokens (so "(" and
\* blanks do not advance it and each completed token advances it by one),
\* the k-th height token's value is at level index k and the k-th prefab
\* character at prefab index k; and when the input holds exactly MAP_SIZE
\* height tokens and MAP_SIZE prefab characters the grid returned has these
\* heights and the variants of these characters.
C2_TokensByPosition ==
  LET r == RefInput
  IN  r.ok =>
        /\ scan.res = Running
        /\ scan.index = Len(r.heights) + Len(r.prefabs)
        /\ scan.in_parentheses = r.open
        /\ \A k \in Cells : k < Len(r.heights) => scan.level_map[k] = r.heights[k + 1]
        /\ \A k \in Cells : k < Len(r.prefabs) => scan.prefab_map[k] = r.prefabs[k + 1]
        /\ (ppc = "done" /\ RefComplete(r)) =>
             ret = OkGrid([k \in Cells |-> r.heights[k + 1]],
                          [k \in Cells |-> RefPrefab[r.prefabs[k + 1]]])

\* a complete input, with a blank between its tokens, a nonzero height and
\* a prefab other than Empty, has been parsed to the end
C2_Witness ==
  /\ ppc = "done"
  /\ RefComplete(RefInput)
  /\ \E k \in 1 .. Len(input) : input[k] \in RefBlank
  /\ ret.res = "Ok"
  /\ \E k \in Cells : ret.level_map[k] # 0
  /\ \E k \in Cells : ret.prefab_map[k] = "Melee"

\* a parenthesized token has been completed on a well-formed input
C2_WitnessEscape ==
  /\ RefInput.ok
  /\ scan.index = 2
  /\ \E k \in 1 .. Len(input) : input[k] = ")"

\* ---- C3
\* C3 (height range under the mutators): from default(), after any calls of
\* set_level_at, set_level_at_index and set_prefab_at, accepted or rejected,
\* every height of the grid is in [-50,50].
C3_HeightsInRange == InRange(level_map)

\* ---- C4
\* C4 (invalid prefab character): when the scan has ended without failure
\* and a character collected in the prefab phase is none of 0 n p J s H, the
\* parse returns the typed error InvalidCharacter (a value, not an abort).
C4_InvalidPrefabIsTypedError ==
  (ppc = "done" /\ scan.res = Running
     /\ \E i \in Cells : scan.prefab_map[i] \notin RefPrefabChars)
    => ret = [res |-> "Err(UltraMapInvalidCharacter)"]

\* ---- C5
\* C5 (bad literal at ')'): when the parser reads ')' and the accumulated
\* buffer is not a valid signed 8-bit integer literal, the parse ends with a
\* typed error returned to the caller, not with an abort.
C5_BadLiteralIsTypedError ==
  [][(ppc = "scan" /\ input' = Append(input, ")") /\ ~RefIsHeightLiteral(scan.temp))
       => (ppc' = "done" /\ ret'.res \in TypedErrors)]_vars

\* ---- C6
\* C6 (malformed height token): while fewer than MAP_SIZE height tokens are
\* stored, a non-blank character read outside parentheses that is neither
\* '(' nor a digit, a ')' included, ends the parse with ConversionError.
C6_MalformedTokenIsConversionError ==
  [][(/\ ppc = "scan"
      /\ ~scan.in_parentheses
      /\ scan.index < MAP_SIZE
      /\ \E c \in Alphabet \ (RefBlank \cup RefDigitChars \cup {"("}) :
           input' = Append(input, c))
       => (ppc' = "done" /\ ret' = [res |-> ConversionError])]_vars

\* ---- C7
\* C7 (truncated input): when the input ends after n < MAP_SIZE well-formed
\* height tokens, or after MAP_SIZE height tokens and m < MAP_SIZE prefab
\* characters, the parse succeeds; the cells reached hold the parsed values,
\* every height not reached is 0 and every prefab not reached is Empty.
C7_TruncatedInput ==
  LET r == RefInput
  IN  (ppc = "done" /\ r.ok /\ ~r.open /\ ~RefComplete(r)) =>
        ret = OkGrid([k \in Cells |-> IF k < Len(r.heights) THEN r.heights[k + 1] ELSE 0],
                     [k \in Cells |-> IF k < Len(r.prefabs) THEN RefPrefab[r.prefabs[k + 1]]
                                                           ELSE "Empty"])

\* an input of all the heights and one prefab character fewer than the grid
\* has cells, the last one read not Empty, has been parsed
C7_Witness ==
  /\ ppc = "done"
  /\ RefInput.ok
  /\ Len(RefInput.heights) = MAP_SIZE
  /\ Len(RefInput.prefabs) = MAP_SIZE - 1
  /\ ret.res = "Ok"
  /\ ret.prefab_map[MAP_SIZE - 2] = "Melee"
  /\ ret.prefab_map[MAP_SIZE - 1] = "Empty"

\* an input that ends in the height phase has been parsed
C7_WitnessHeights ==
  /\ ppc = "done"
  /\ RefInput.ok
  /\ Len(RefInput.heights) = 1
  /\ ~RefInput.open
  /\ ret.res = "Ok"
  /\ ret.level_map[0] = -5

\* ---- C8
\* C8 (get_map_raw is the canonical text): for a grid whose heights are in
\* [-50,50], get_map_raw returns without aborting and what it returns is the
\* text save_pattern writes for the same grid.
C8_RawIsCanonical ==
  InRange(level_map) =>
    /\ pc = "alive"
    /\ raw.returned => raw.text = SaveText(level_map, prefab_map)

\* ---- C9
\* The text of a file read as lines and tokens, apart from the serializer:
\* a line ends at each line break, a token is one character or runs from a
\* "(" to the next ")".
RECURSIVE RefLines(_, _)
RefLines(text, line) ==
  IF text = <<>> THEN <<line>>
  ELSE IF Head(text) = "\n" THEN <<line>> \o RefLines(Tail(text), <<>>)
  ELSE RefLines(Tail(text), Append(line, Head(text)))

RECURSIVE RefTokens(_)
RefTokens(line) ==
  IF line = <<>> THEN <<>>
  ELSE IF Head(line) # "(" THEN <<<<Head(line)>>>> \o RefTokens(Tail(line))
  ELSE LET closes == {j \in 1 .. Len(line) : line[j] = ")"}
           j == IF closes = {} THEN Len(line)
                ELSE CHOOSE k \in closes : \A m \in closes : k <= m
       IN  <<SubSeq(line, 1, j)>> \o RefTokens(SubSeq(line, j + 1, Len(line)))

\* Rows of the grid, and the cells of row r (1-based): ROW each, the last
\* row what is left
RefRows == (MAP_SIZE + ROW - 1) \div ROW
RefRowLen(r) == IF r * ROW <= MAP_SIZE THEN ROW ELSE MAP_SIZE - (r - 1) * ROW

\* C9 (layout by token position): the text save_pattern writes is one line
\* of ROW height tokens per row (a line break after every ROW-th token), one
\* blank line, one line of ROW prefab characters per row, and ends with one
\* line break; for default() every one of these tokens and characters is
\* '0'.  (256 cells in rows of 16 are 16 lines of 16.)
C9_Layout ==
  file.exists =>
    LET lines == RefLines(file.text, <<>>)
        n == RefRows
    IN  /\ Len(lines) = 2 * n + 2
        /\ \A r \in 1 .. n : Len(RefTokens(lines[r])) = RefRowLen(r)
        /\ lines[n + 1] = <<>>
        /\ \A r \in 1 .. n : /\ Len(lines[n + 1 + r]) = RefRowLen(r)
                             /\ \A k \in 1 .. RefRowLen(r) :
                                  lines[n + 1 + r][k] \in RefPrefabChars
        /\ lines[2 * n + 2] = <<>>
        /\ (level_map = [i \in Cells |-> 0] /\ prefab_map = [i \in Cells |-> "Empty"])
             => \A r \in 1 .. n : /\ lines[r] = [k \in 1 .. RefRowLen(r) |-> "0"]
                                  /\ lines[n + 1 + r] = [k \in 1 .. RefRowLen(r) |-> "0"]

\* a grid with parenthesized heights in its first row has been saved
C9_Witness ==
  /\ file.exists
  /\ level_map[0] = -50
  /\ level_map[1] = 10
  /\ prefab_map[0] = "Stairs"

\* the grid of default() has been saved
C9_WitnessDefault ==
  /\ file.exists
  /\ level_map = [i \in Cells |-> 0]
  /\ prefab_map = [i \in Cells |-> "Empty"]

\* ---- C10
RECURSIVE RefConcat(_)
RefConcat(ss) == IF ss = <<>> THEN <<>> ELSE Head(ss) \o RefConcat(Tail(ss))

\* The height tokens of a file, in order: those of its lines before the
\* blank line
RefHeightTokens(text) ==
  LET lines == RefLines(text, <<>>)
  IN  RefConcat([r \in 1 .. RefRows |-> RefTokens(lines[r])])

\* t is "(" b ")" with b the signed decimal text of v: an optional '-',
\* digits with no leading zero, of value v
RefIsEscapeOf(t, v) ==
  /\ Len(t) >= 3
  /\ t[1] = "("
  /\ t[Len(t)] = ")"
  /\ LET b == SubSeq(t, 2, Len(t) - 1)
         d == IF Head(b) = "-" THEN Tail(b) ELSE b
     IN  /\ RefIsLiteral(b)
         /\ RefLiteralValue(b) = v
         /\ (Head(b) = "-") = (v < 0)
         /\ (Len(d) > 1 => Head(d) # "0")

\* C10 (bare iff 0..9): in the text save_pattern writes, the token of a
\* height is one bare character exactly when the height is in 0..9, and
\* then it is its digit; every other height, the negative ones of one digit
\* included, is "(" then its signed decimal text then ")".
C10_BareIffSingleDigit ==
  file.exists =>
    LET tokens == RefHeightTokens(file.text)
    IN  /\ Len(tokens) = MAP_SIZE
        /\ \A k \in Cells :
             LET t == tokens[k + 1]
                 v == level_map[k]
             IN  /\ (Len(t) = 1) <=> (v \in 0 .. 9)
                 /\ v \in 0 .. 9 => (t[1] \in RefDigitChars /\ RefDigit[t[1]] = v)
                 /\ v \notin 0 .. 9 => RefIsEscapeOf(t, v)

\* a grid with the heights -1, 9 and 10 has been saved
C10_Witness ==
  /\ file.exists
  /\ {-1, 9, 10} \subseteq {level_map[i] : i \in Cells}

\* ---- C11
\* C11 (set_level_at_index): the call is rejected whenever index >= MAP_SIZE
\* and whenever level > 50, it is accepted at the last index with level 50,
\* and an accepted call makes height[index] equal to level.
C11_SetLevelAtIndex ==
  call.op = "set_level_at_index" =>
    /\ (call.index >= MAP_SIZE \/ call.level > 50) => pc = "aborted"
    /\ (call.index = MAP_SIZE - 1 /\ call.level = 50) => pc = "alive"
    /\ pc = "alive" => (call.index \in Cells /\ level_map[call.index] = call.level)

\* set_level_at_index(MAP_SIZE - 1, 50) has been accepted
C11_Witness ==
  /\ call = [op |-> "set_level_at_index", index |-> MAP_SIZE - 1, level |-> 50]
  /\ pc = "alive"
  /\ level_map[MAP_SIZE - 1] = 50

\* set_level_at_index(MAP_SIZE, 0) and set_level_at_index(0, 51) are rejected
C11_WitnessRejected ==
  /\ call.op = "set_level_at_index"
  /\ pc = "aborted"
  /\ \/ (call.index = MAP_SIZE /\ call.level = 0)
     \/ (call.index = 0 /\ call.level = 51)

\* ---- C12
\* C12 (default prefab): the default value of Prefab is Empty, the value
\* default() of the grid puts in every prefab cell.
C12_PrefabDefaultIsEmpty ==
  calls = 0 => \A i \in Cells : prefab_map[i] = "Empty" /\ prefab_map[i] = PrefabDefault

\* ---- C13
\* C13 (parsed heights in range): every grid a successful parse returns has
\* all its heights in [-50,50]; a parenthesized literal outside the range
\* makes the parse fail.
C13_ParsedHeightsInRange ==
  ret.res = "Ok" => InRange(ret.level_map)

\* ---- C14
\* C14 (prefab characters): for every variant p in a grid, match_char(p) and
\* into(p) are the same character, the one the format gives p, and try_from
\* of it gives p back; for every character c of a saved file, try_from(c)
\* succeeds exactly when c is one of 0 n p J s H, and then match_char of its
\* variant is c; on every other character it is InvalidCharacter.
C14_PrefabBijection ==
  /\ \A i \in Cells :
       LET p == prefab_map[i]
       IN  /\ match_char(p) = into_char(p)
           /\ match_char(p) \in RefPrefabChars
           /\ RefPrefab[match_char(p)] = p
           /\ try_from(match_char(p)) = [ok |-> TRUE, val |-> p]
           /\ try_from(into_char(p)) = [ok |-> TRUE, val |-> p]
  /\ file.exists =>
       \A k \in 1 .. Len(file.text) :
         LET c == file.text[k]
         IN  IF c \in RefPrefabChars
               THEN try_from(c).ok /\ match_char(try_from(c).val) = c
               ELSE try_from(c) = [ok |-> FALSE, val |-> "UltraMapInvalidCharacter"]

\* a grid of three variants other than Empty has been saved, its file
\* holding prefab characters and others
C14_Witness ==
  /\ file.exists
  /\ prefab_map[0] = "JumpPad"
  /\ prefab_map[1] = "Hideous"
  /\ prefab_map[2] = "Projectile"
  /\ \E k \in 1 .. Len(file.text) : file.text[k] = "("

\* ---- C15
\* C15 (prefab phase): once MAP_SIZE height tokens are stored, every
\* non-blank character read, '(' and ')' included, is stored as one prefab
\* token at index - MAP_SIZE, the index advances by one, the state stays
\* Normal and no height cell is written.  (Stated while the prefab container
\* still has a free cell.)
C15_PrefabPhase ==
  [][(/\ ppc = "scan"
      /\ ~scan.in_parentheses
      /\ scan.index >= MAP_SIZE
      /\ scan.index < 2 * MAP_SIZE
      /\ \E c \in Alphabet \ RefBlank : input' = Append(input, c))
       => (/\ scan'.res = Running
           /\ scan'.prefab_map =
                [scan.prefab_map EXCEPT ![scan.index - MAP_SIZE] = input'[Len(input')]]
           /\ scan'.index = scan.index + 1
           /\ ~scan'.in_parentheses
           /\ scan'.level_map = scan.level_map)]_vars

\* ---- C16
\* C16 as the specification states it: inside parentheses every character
\* other than ')', a blank and a further '(' included, is appended to the
\* buffer, the index stays and the state stays InParens.
C16_InParensAppendsAll ==
  [][(/\ ppc = "scan"
      /\ scan.in_parentheses
      /\ \E c \in Alphabet \ {")"} : input' = Append(input, c))
       => (/\ scan'.temp = Append(scan.temp, input'[Len(input')])
           /\ scan'.index = scan.index
           /\ scan'.in_parentheses
           /\ ppc' = "scan")]_vars

\* C16 (inside parentheses), amended: inside parentheses every character
\* other than ')', a blank and '(' is appended to the buffer; a blank and a
\* further '(' are dropped and leave the buffer as it is; in each case the
\* index and the cells stay, the state stays InParens and the parse goes on.
C16_InParensAppends ==
  [][(/\ ppc = "scan"
      /\ scan.in_parentheses
      /\ \E c \in Alphabet \ {")"} : input' = Append(input, c))
       => (/\ scan'.temp = IF input'[Len(input')] \in RefBlank \cup {"("}
                             THEN scan.temp
                             ELSE Append(scan.temp, input'[Len(input')])
           /\ scan'.index = scan.index
           /\ scan'.level_map = scan.level_map
           /\ scan'.prefab_map = scan.prefab_map
           /\ scan'.in_parentheses
           /\ scan'.res = Running
           /\ ppc' = "scan")]_vars

\* "( (5 5" has been read: the buffer is "55", the escape still open
C16_Witness ==
  /\ input = <<"(", " ", "(", "5", " ", "5">>
  /\ ppc = "scan"
  /\ scan.in_parentheses
  /\ scan.temp = <<"5", "5">>
  /\ scan.index = 0

\* ---- C17
\* The input without its blanks.
RefStrip(text) == SelectSeq(text, LAMBDA c : c \notin RefBlank)

\* C17 (blanks are insignificant): the parser's state after an input, and
\* the outcome once the parse has ended, are those of the same input with
\* all its blanks removed; so two inputs that differ only in blanks before,
\* between or after tokens give the same grid or the same error, and a
\* blank never advances the index.  (The equality is with every blank
\* removed, those inside parentheses too, which is more than C17 asks.)
C17_BlanksInsignificant ==
  /\ scan = ScanText(ScanInit, RefStrip(input))
  /\ ppc = "done" => ret = FromText(RefStrip(input))

\* an input with a blank before, between and after its tokens has been
\* parsed to a grid
C17_Witness ==
  /\ ppc = "done"
  /\ ret.res = "Ok"
  /\ Len(input) >= 5
  /\ input[1] = " "
  /\ input[Len(input)] = " "
  /\ \E k \in 2 .. Len(input) - 1 :
       input[k] = " " /\ input[k - 1] \in RefDigitChars /\ input[k + 1] \in RefDigitChars
  /\ scan.index = 2
  /\ ret.level_map[1] = 5

\* ---- C18
\* C18 (surplus prefab characters): on an input of MAP_SIZE well-formed
\* height tokens followed by any number of prefab characters, more than
\* MAP_SIZE included, the parse ends with a grid or a typed error, never
\* with an out-of-bounds abort.
C18_NoOutOfBounds ==
  (/\ ppc = "done"
   /\ \E n \in 0 .. Len(input) :
        LET r == RefScan(SubSeq(input, 1, n), <<>>, <<>>)
        IN  /\ r.ok /\ ~r.open /\ Len(r.heights) = MAP_SIZE
            /\ \A k \in n + 1 .. Len(input) : input[k] \in RefPrefabChars \cup RefBlank)
    => ret.res \in {"Ok"} \cup TypedErrors

\* ---- C19
\* C19 (set_level_at): the call is rejected exactly when x * ROW + y >=
\* MAP_SIZE or the level is outside [-50,50]; the coordinates are not tested
\* one by one, so a pair with y >= ROW whose index is below MAP_SIZE is
\* accepted; an accepted call leaves height[x * ROW + y] = level.  (For
\* coordinates whose index x * ROW + y does not overflow the machine word.)
C19_SetLevelAt ==
  call.op = "set_level_at" =>
    /\ pc = "aborted" <=>
         (call.x * ROW + call.y >= MAP_SIZE \/ call.level \notin HeightRange)
    /\ pc = "alive" =>
         /\ call.x * ROW + call.y \in Cells
         /\ level_map[call.x * ROW + call.y] = call.level

\* set_level_at(0, MAP_SIZE - 1, 10), its y beyond a row, has been accepted
C19_Witness ==
  /\ call = [op |-> "set_level_at", x |-> 0, y |-> MAP_SIZE - 1, level |-> 10]
  /\ MAP_SIZE - 1 >= ROW
  /\ pc = "alive"
  /\ level_map[MAP_SIZE - 1] = 10

\* ---- C20
\* C20 (frame of the mutators): an accepted set_level_at or
\* set_level_at_index changes no height but the one at its index and no
\* prefab; set_prefab_at with its index inside the grid changes no prefab
\* but the one at its index and no height; a rejected call changes neither
\* a height nor a prefab.
C20_Frame ==
  [][(call = NoCall /\ call' # NoCall) =>
       /\ pc' = "aborted" => (level_map' = level_map /\ prefab_map' = prefab_map)
       /\ (pc' = "alive" /\ call'.op = "set_level_at") =>
            /\ prefab_map' = prefab_map
            /\ \A j \in Cells \ {call'.x * ROW + call'.y} : level_map'[j] = level_map[j]
       /\ (pc' = "alive" /\ call'.op = "set_level_at_index") =>
            /\ prefab_map' = prefab_map
            /\ \A j \in Cells \ {call'.index} : level_map'[j] = level_map[j]
       /\ (call'.op = "set_prefab_at" /\ call'.x * ROW + call'.y < MAP_SIZE) =>
            /\ pc' = "alive"
            /\ level_map' = level_map
            /\ \A j \in Cells \ {call'.x * ROW + call'.y} : prefab_map'[j] = prefab_map[j]]_vars

\* set_prefab_at(1, 0, Hideous) has put a prefab no sampled grid holds in
\* the last cell, the heights and the other prefabs being those of a sample
C20_Witness ==
  /\ call = [op |-> "set_prefab_at", x |-> 1, y |-> 0, prefab |-> "Hideous"]
  /\ pc = "alive"
  /\ prefab_map[ROW] = "Hideous"
  /\ prefab_map[0] = "Stairs"
  /\ prefab_map[1] = "Melee"
  /\ level_map[ROW] = -50

\* set_level_at(0, 1, 10) has changed one height of a sampled grid
C20_WitnessLevel ==
  /\ call = [op |-> "set_level_at", x |-> 0, y |-> 1, level |-> 10]
  /\ pc = "alive"
  /\ level_map = [j \in Cells |-> IF j = 1 THEN 10 ELSE -50]
  /\ prefab_map[1] = "Stairs"

\* set_level_at_index(0, 127) has been rejected on a sampled grid
C20_WitnessRejected ==
  /\ call = [op |-> "set_level_at_index", index |-> 0, level |-> 127]
  /\ pc = "aborted"
  /\ level_map[0] = 9

====
